---- MODULE Spec2Model ----
(***************************************************************************)
(* A model of the quant-hybrid-signal pipeline: the four strategy signal   *)
(* generators, the SignalManager (decorrelate, combine, risk controls) and *)
(* the portfolio weight construction of run_signals.py.                    *)
(*                                                                         *)
(* Floats are fixed-point integers: 1.0 is Scale, so 0.15 is 15.  A        *)
(* quotient is cut toward 0.  NaN is a value of its own that arithmetic    *)
(* passes on, as IEEE arithmetic and pandas do.                            *)
(***************************************************************************)
EXTENDS Integers, Sequences, FiniteSets, TLC

VARIABLES
    pc,          \* position of the run that the specification describes
    prices,      \* the price panel: column -> sequence of daily prices
    generator,   \* the generator that produced `signals`, or "none"
    params,      \* the parameters that generator was called with
    signals,     \* the signal panel a generator returned
    signals_dict,      \* the bundle: strategy names in insertion order, and their panels
    cleaned_signals,   \* the names decorrelate_signals kept
    log,               \* what decorrelate_signals did with each pair it visited
    combined,          \* what combine_signals_optimally returned
    raised,            \* the exception that ended the run, or "none"
    sectors,           \* apply_risk_controls' sectors
    final_signal,      \* what apply_risk_controls returned
    sector_exposure,   \* apply_risk_controls' sector_exposure dict
    weight,            \* the portfolio weights
    attempt,           \* load_or_download_data's loop variable
    downloads,         \* what yf.download gave at each attempt so far
    close              \* the data load_or_download_data returned

genvars == <<prices, generator, params, signals>>
mgrvars == <<signals_dict, cleaned_signals, log, combined, raised>>
riskvars == <<sectors, final_signal, sector_exposure>>
loadvars == <<attempt, downloads, close>>

\* load_or_download_data has not run
IdleLoad ==
    /\ attempt = 0
    /\ downloads = <<>>
    /\ close = {}

-----------------------------------------------------------------------------
(* Numbers *)

Scale == 10 * 10
NaN == 0 - 1000 * 1000 * 1000
Huge == 1000 * Scale

IsNaN(x) == x = NaN
Abs(x) == IF x < 0 THEN 0 - x ELSE x
Max(a, b) == IF a >= b THEN a ELSE b
Min(a, b) == IF a <= b THEN a ELSE b
Sign(x) == IF x > 0 THEN 1 ELSE IF x < 0 THEN 0 - 1 ELSE 0

\* a / b for b > 0, rounded toward zero
Quot(a, b) == IF a >= 0 THEN a \div b ELSE 0 - ((0 - a) \div b)

Neg(x) == IF IsNaN(x) THEN NaN ELSE 0 - x
Sub(a, b) == IF IsNaN(a) \/ IsNaN(b) THEN NaN ELSE a - b

\* x / k for a finite constant k > 0, and x * k
DivBy(x, k) == IF IsNaN(x) THEN NaN ELSE Quot(x, k)
MulBy(x, k) == IF IsNaN(x) THEN NaN ELSE x * k

\* np.clip(x, lo, hi): NaN stays NaN
clip(x, lo, hi) == IF IsNaN(x) THEN NaN ELSE Max(lo, Min(hi, x))

\* a / (b + 1e-8) in fixed point, a and b in units of 1/Scale and b >= 0.
\* 1e-8 is below the resolution: it matters only when b is 0, where the
\* quotient of a nonzero a is at least 1e6 in magnitude; every use is
\* clipped to at most 4 afterwards, so the quotient saturates at Huge.
EpsDiv(a, b) ==
    IF IsNaN(a) \/ IsNaN(b) THEN NaN
    ELSE IF b = 0 THEN Sign(a) * Huge
    ELSE Max(0 - Huge, Min(Huge, Quot(a * Scale, b)))

RECURSIVE SqrtIter(_, _, _)
SqrtIter(n, lo, hi) ==
    IF lo >= hi THEN lo
    ELSE LET mid == (lo + hi + 1) \div 2
         IN IF mid * mid <= n THEN SqrtIter(n, mid, hi) ELSE SqrtIter(n, lo, mid - 1)

\* floor of the square root
Isqrt(n) == SqrtIter(n, 0, Min(n, 40000))

-----------------------------------------------------------------------------
(* pandas Series operations, on sequences indexed by date 1..Len *)

RECURSIVE SumOver(_, _)
SumOver(f, S) ==
    IF S = {} THEN 0
    ELSE LET k == CHOOSE k \in S : TRUE IN f[k] + SumOver(f, S \ {k})

Valid(s, t, window) == {k \in Max(1, t - window + 1)..t : ~IsNaN(s[k])}

\* Series.pct_change(k)
pct_change(s, k) ==
    [t \in 1..Len(s) |->
        IF t <= k \/ IsNaN(s[t]) \/ IsNaN(s[t - k]) THEN NaN
        ELSE Quot(s[t] * Scale, s[t - k]) - Scale]

\* Series.rolling(window, min_periods).mean()
rolling_mean(s, window, min_periods) ==
    [t \in 1..Len(s) |->
        LET V == Valid(s, t, window)
        IN IF Cardinality(V) < min_periods THEN NaN
           ELSE Quot(SumOver(s, V), Cardinality(V))]

\* Series.rolling(window, min_periods).std(), ddof = 1
rolling_std(s, window, min_periods) ==
    [t \in 1..Len(s) |->
        LET V == Valid(s, t, window)
            n == Cardinality(V)
            sq == [k \in V |-> s[k] * s[k]]
            sm == SumOver(s, V)
        IN IF n < min_periods \/ n < 2 THEN NaN
           ELSE Isqrt((n * SumOver(sq, V) - sm * sm) \div (n * (n - 1)))]

\* Series.shift(1)
shift(s) == [t \in 1..Len(s) |-> IF t = 1 THEN NaN ELSE s[t - 1]]

\* Series.fillna(0)
fillna_kept(s) == s
fillna(s) == [t \in 1..Len(s) |-> IF IsNaN(s[t]) THEN 0 ELSE s[t]]

\* np.clip on a whole Series
clip_series(s, lo, hi) == [t \in 1..Len(s) |-> clip(s[t], lo, hi)]

\* Series.dropna()
dropna(s) == SelectSeq(s, LAMBDA x : ~IsNaN(x))

\* Series.corr(other) > threshold, threshold = th_num / th_den >= 0.
\* Pearson's r is cov / sqrt(var_x * var_y); r is NaN, and the comparison
\* False, when a variance is 0.
corr_above(x, y, th_num, th_den) ==
    LET n == Len(x)
        D == 1..n
        sx == SumOver(x, D)
        sy == SumOver(y, D)
        cxy == n * SumOver([k \in D |-> x[k] * y[k]], D) - sx * sy
        vx == n * SumOver([k \in D |-> x[k] * x[k]], D) - sx * sx
        vy == n * SumOver([k \in D |-> y[k] * y[k]], D) - sy * sy
    IN /\ n >= 2
       /\ vx > 0
       /\ vy > 0
       /\ cxy > 0
       /\ th_den * th_den * cxy * cxy > th_num * th_num * vx * vy


-----------------------------------------------------------------------------
(* The four generators.  A panel is a function from its columns to Series  *)
(* over the same dates 1..n.                                               *)

Dates(panel) == 1..Len(panel[CHOOSE c \in DOMAIN panel : TRUE])

\* prices as fixed-point numbers
Fixed(series) == [t \in 1..Len(series) |-> series[t] * Scale]

DefaultClip == <<0 - Scale, Scale>>

compute_momentum_signal(price_series, lookback) ==
    LET min_periods == Max(lookback \div 2, 10)
    IN IF Len(dropna(price_series)) < min_periods + 1 THEN 0
       ELSE clip(pct_change(price_series, lookback)[Len(price_series)],
                 0 - Scale \div 2, Scale \div 2)

generate_momentum_signals(price_data, lookback, clip_range) ==
    [col \in DOMAIN price_data |->
        LET series == Fixed(price_data[col])
            raw == [t \in 1..Len(series) |->
                       IF t >= lookback + 1
                       THEN compute_momentum_signal(SubSeq(series, 1, t), lookback)
                       ELSE 0]
        IN fillna(shift(clip_series(raw, clip_range[1], clip_range[2])))]

generate_mean_reversion_signals(price_data, lookback, clip_range) ==
    [col \in DOMAIN price_data |->
        LET returns == pct_change(Fixed(price_data[col]), 1)
            mean == rolling_mean(returns, lookback, lookback)
            std == rolling_std(returns, lookback, lookback)
            zscore == [t \in 1..Len(returns) |->
                          EpsDiv(Sub(returns[t], mean[t]), std[t])]
            signal == [t \in 1..Len(returns) |->
                          Neg(clip(zscore[t], clip_range[1], clip_range[2]))]
        IN fillna(shift(signal))]

\* generate_fx_signals returns its signals without a shift
fx_final(s) == s

generate_fx_signals(price_data, lookback, volatility_period) ==
    [asset \in DOMAIN price_data |->
        LET series == Fixed(dropna(price_data[asset]))
            n == Len(series)
            sma == rolling_mean(series, lookback, lookback)
            returns == pct_change(series, 1)
            volatility == rolling_std(returns, volatility_period, volatility_period)
            raw_signal == [t \in 1..n |-> EpsDiv(Neg(Sub(series[t], sma[t])), volatility[t])]
            clipped_signal == [t \in 1..n |->
                DivBy(MulBy(clip(raw_signal[t], 0 - (3 * Scale) \div 2, (3 * Scale) \div 2), 2), 3)]
        IN IF n < lookback THEN [t \in 1..n |-> 0]
           ELSE fillna(fx_final(clipped_signal))]

\* the candidate pairs with their minimum full-history price correlation
StatArbPairs ==
    <<[a1 |-> "BTC-USD", a2 |-> "ETH-USD", num |-> 5, den |-> 10],
      [a1 |-> "SPY", a2 |-> "QQQ", num |-> 7, den |-> 10]>>

pair_signal(price_data, pr, lookback, zscore_threshold, clip_range) ==
    LET p1 == price_data[pr.a1]
        p2 == price_data[pr.a2]
        ratio == [t \in 1..Len(p1) |-> Quot(p1[t] * Scale, p2[t])]
        min_periods == Max(lookback \div 2, 10)
        mean == rolling_mean(ratio, lookback, min_periods)
        std == rolling_std(ratio, lookback, min_periods)
        zscore == [t \in 1..Len(p1) |-> EpsDiv(Sub(ratio[t], mean[t]), std[t])]
    IN [t \in 1..Len(p1) |->
           clip(DivBy(Neg(clip(DivBy(zscore[t], zscore_threshold), 0 - 2 * Scale, 2 * Scale)), 2),
                clip_range[1], clip_range[2])]

generate_stat_arb_signals(price_data, lookback, zscore_threshold, clip_range) ==
    LET cols == DOMAIN price_data
        pairs == {k \in DOMAIN StatArbPairs :
                     /\ StatArbPairs[k].a1 \in cols
                     /\ StatArbPairs[k].a2 \in cols
                     /\ corr_above(price_data[StatArbPairs[k].a1],
                                   price_data[StatArbPairs[k].a2],
                                   StatArbPairs[k].num, StatArbPairs[k].den)}
        n == Len(price_data[CHOOSE c \in cols : TRUE])
    IN [col \in cols |->
           LET first == {k \in pairs : StatArbPairs[k].a1 = col}
               second == {k \in pairs : StatArbPairs[k].a2 = col}
               raw == IF first # {}
                      THEN pair_signal(price_data, StatArbPairs[CHOOSE k \in first : TRUE],
                                       lookback, zscore_threshold, clip_range)
                      ELSE IF second # {}
                      THEN LET s == pair_signal(price_data, StatArbPairs[CHOOSE k \in second : TRUE],
                                                lookback, zscore_threshold, clip_range)
                           IN [t \in 1..n |-> Neg(s[t])]
                      ELSE [t \in 1..n |-> 0]
           IN fillna(shift(raw))]

\* one call of a generator, by name
Generate(g, p, price_data) ==
    CASE g = "momentum" -> generate_momentum_signals(price_data, p.lookback, p.clip_range)
      [] g = "mean_reversion" -> generate_mean_reversion_signals(price_data, p.lookback, p.clip_range)
      [] g = "fx_vol" -> generate_fx_signals(price_data, p.lookback, p.volatility_period)
      [] g = "stat_arb" -> generate_stat_arb_signals(price_data, p.lookback, p.zscore_threshold, p.clip_range)

-----------------------------------------------------------------------------
(* Price panels.  load_or_download_data returns complete rows only, so a   *)
(* panel holds no NaN.  A panel is Warm days of a periodic history and up  *)
(* to MaxTail further days priced freely.                                  *)

Warm == 10
MaxTail == 2
NPatterns == 3
TailPrices == {1, 3}
PanelColumns == {{"BTC-USD", "ETH-USD"}, {"SPY", "QQQ"}}

Pattern(k, d) == 1 + (d % k)

SeqsOfLen(S, n) == [1..n -> S]

\* one column: Warm days of pattern k, then the days of tail
PriceSeries(k, tail) == [d \in 1..Warm |-> Pattern(k, d)] \o tail

\* prices is one of the panels
IsPricePanel ==
    \E cols \in PanelColumns, n \in 0..MaxTail :
        \E k \in [cols -> 1..NPatterns], tail \in [cols -> SeqsOfLen(TailPrices, n)] :
            prices = [c \in cols |-> PriceSeries(k[c], tail[c])]

\* lookbacks: a short one and the one run_signals.py passes
MomentumLookbacks == {2, 21}
MeanReversionLookbacks == {3, 15}
FxLookbacks == {<<3, 2>>, <<50, 14>>}
StatArbLookbacks == {10, 20}

NoParams == [lookback |-> 0]
NoSignals == <<>>
None == <<>>

\* nothing of the manager or the weights has run
IdleManager ==
    /\ signals_dict = None
    /\ cleaned_signals = {}
    /\ log = <<>>
    /\ combined = None
    /\ raised = "none"
    /\ final_signal = None
    /\ sectors = None
    /\ sector_exposure = None
    /\ weight = None
    /\ IdleLoad

InitGen ==
    /\ pc = "prices"
    /\ IsPricePanel
    /\ generator = "none"
    /\ params = NoParams
    /\ signals = NoSignals
    /\ IdleManager

RunMomentum ==
    \E lookback \in MomentumLookbacks :
        /\ pc = "prices"
        /\ pc' = "signals"
        /\ generator' = "momentum"
        /\ params' = [lookback |-> lookback, clip_range |-> DefaultClip]
        /\ signals' = Generate("momentum", params', prices)
        /\ UNCHANGED <<loadvars, prices, mgrvars, riskvars, weight>>

RunMeanReversion ==
    \E lookback \in MeanReversionLookbacks :
        /\ pc = "prices"
        /\ pc' = "signals"
        /\ generator' = "mean_reversion"
        /\ params' = [lookback |-> lookback, clip_range |-> DefaultClip]
        /\ signals' = Generate("mean_reversion", params', prices)
        /\ UNCHANGED <<loadvars, prices, mgrvars, riskvars, weight>>

RunFx ==
    \E lb \in FxLookbacks :
        /\ pc = "prices"
        /\ pc' = "signals"
        /\ generator' = "fx_vol"
        /\ params' = [lookback |-> lb[1], volatility_period |-> lb[2]]
        /\ signals' = Generate("fx_vol", params', prices)
        /\ UNCHANGED <<loadvars, prices, mgrvars, riskvars, weight>>

RunStatArb ==
    \E lookback \in StatArbLookbacks :
        /\ pc = "prices"
        /\ pc' = "signals"
        /\ generator' = "stat_arb"
        /\ params' = [lookback |-> lookback, zscore_threshold |-> 2,
                      clip_range |-> DefaultClip]
        /\ signals' = Generate("stat_arb", params', prices)
        /\ UNCHANGED <<loadvars, prices, mgrvars, riskvars, weight>>

NextGen == RunMomentum \/ RunMeanReversion \/ RunFx \/ RunStatArb

vars == <<pc, prices, generator, params, signals, signals_dict, cleaned_signals,
          log, combined, raised, sectors, final_signal, sector_exposure, weight,
          attempt, downloads, close>>

SpecGen == InitGen /\ [][NextGen]_vars

-----------------------------------------------------------------------------
(* Claims about the generators, under SpecGen *)

\* the panel with the price of column b at date s replaced by p
Mutated(panel, b, s, p) == [panel EXCEPT ![b][s] = p]

\* the signals of generator g at every date t <= s are the same when a
\* price at date s changes
NoLookahead(g) ==
    (pc = "signals" /\ generator = g) =>
        \A b \in DOMAIN prices, s \in Dates(prices), p \in TailPrices :
            LET other == Generate(g, params, Mutated(prices, b, s, p))
            IN \A a \in DOMAIN prices, t \in 1..s : other[a][t] = signals[a][t]

\* C1: for each of the four generators, every asset and every date t, the
\* signal at t is the same for two price panels that agree on all dates
\* before t: a change of a price at date t or later never changes the
\* signal at t.
C1_AntiLookahead ==
    /\ NoLookahead("momentum")
    /\ NoLookahead("mean_reversion")
    /\ NoLookahead("fx_vol")
    /\ NoLookahead("stat_arb")

\* C2: with the default clip range every value a generator returns is a
\* finite number in [-1, 1], never NaN, also for a constant price series
\* and for a panel too short for the lookback.
C2_SignalsBounded ==
    pc = "signals" =>
        \A a \in DOMAIN signals :
            \A t \in DOMAIN signals[a] :
                /\ ~IsNaN(signals[a][t])
                /\ 0 - Scale <= signals[a][t]
                /\ signals[a][t] <= Scale

Constant(series) == \A t \in DOMAIN series : series[t] = series[1]

\* a generator ran on a panel with a constant price series (zero return
\* variance) while another column's signal reaches the clip bound
C2_Witness ==
    /\ pc = "signals"
    /\ generator = "mean_reversion"
    /\ \E a \in DOMAIN prices : Constant(prices[a])
    /\ \E b \in DOMAIN signals : \E t \in DOMAIN signals[b] : Abs(signals[b][t]) = Scale

-----------------------------------------------------------------------------
(* SignalManager.  A DataFrame is a record: index (a set of dates),        *)
(* columns (a set of assets) and val, a function of <<date, asset>>.  A    *)
(* bundle (dict) is its names in insertion order and a panel per name.     *)

max_correlation == <<7, 10>>
max_position_size == (15 * Scale) \div 100
max_sector_exposure == (40 * Scale) \div 100

RECURSIVE GCD(_, _)
GCD(a, b) == IF b = 0 THEN a ELSE GCD(b, a % b)

RECURSIVE GCDOver(_, _)
GCDOver(f, S) ==
    IF S = {} THEN 0
    ELSE LET k == CHOOSE k \in S : TRUE IN GCD(Abs(f[k]), GCDOver(f, S \ {k}))

\* abs(pearsonr(x, y)) > th for two series over the dates D, th = <<num, den>>.
\* r = cov / sqrt(var_x * var_y) does not change when a series is scaled by
\* a positive factor, so each is first divided by the gcd of its values.
\* r is NaN for a constant series, and abs(NaN) > th is False.
abs_pearsonr_above(x, y, D, th) ==
    LET gx == GCDOver(x, D)
        gy == GCDOver(y, D)
        u == [k \in D |-> IF gx = 0 THEN 0 ELSE x[k] \div gx]
        v == [k \in D |-> IF gy = 0 THEN 0 ELSE y[k] \div gy]
        n == Cardinality(D)
        su == SumOver(u, D)
        sv == SumOver(v, D)
        cuv == n * SumOver([k \in D |-> u[k] * v[k]], D) - su * sv
        vu == n * SumOver([k \in D |-> u[k] * u[k]], D) - su * su
        vv == n * SumOver([k \in D |-> v[k] * v[k]], D) - sv * sv
    IN /\ vu > 0
       /\ vv > 0
       /\ th[2] * th[2] * cuv * cuv > th[1] * th[1] * vu * vv

\* signal_df.dropna(axis=1, how='all').columns: the columns with at least
\* one non-NaN value
strategy_assets(df) ==
    {a \in df.columns : \E d \in df.index : ~IsNaN(df.val[<<d, a>>])}

\* df[assets].dropna().index: the dates with no NaN in these columns
dropna_rows(df, assets) ==
    {d \in df.index : \A a \in assets : ~IsNaN(df.val[<<d, a>>])}

\* df[assets].loc[idx].mean(axis=1)
row_mean(df, assets, idx) ==
    [d \in idx |-> Quot(SumOver([a \in assets |-> df.val[<<d, a>>]], assets),
                        Cardinality(assets))]

Cells(df) == df.index \X df.columns
HasNaN(df) == \E c \in Cells(df) : IsNaN(df.val[c])
AbsSum(df) == SumOver([c \in Cells(df) |-> Abs(df.val[c])], Cells(df))

\* abs(df1.values).mean() < abs(df2.values).mean(); a mean over a NaN is
\* NaN and compares False
mean_abs_less(df1, df2) ==
    /\ ~HasNaN(df1)
    /\ ~HasNaN(df2)
    /\ AbsSum(df1) * Cardinality(Cells(df2)) < AbsSum(df2) * Cardinality(Cells(df1))

\* which of a correlated pair to delete
removal_choice_strict(df1, df2) ==
    IF mean_abs_less(df1, df2) THEN "remove_first"
    ELSE IF mean_abs_less(df2, df1) THEN "remove_second"
    ELSE "kept"

removal_choice_reversed(df1, df2) ==
    IF mean_abs_less(df1, df2) THEN "remove_second" ELSE "remove_first"

removal_choice_second(df1, df2) == "remove_second"

removal_choice(df1, df2) ==
    IF mean_abs_less(df1, df2) THEN "remove_first" ELSE "remove_second"

\* what one pass of the inner loop does with the pair strat1, strat2
pair_outcome(bundle, cleaned, strat1, strat2) ==
    LET df1 == bundle.panel[strat1]
        df2 == bundle.panel[strat2]
        common_assets == strategy_assets(df1) \cap strategy_assets(df2)
        idx1 == dropna_rows(df1, common_assets)
        idx2 == dropna_rows(df2, common_assets)
        common_idx == idx1 \cap idx2
    IN IF strat1 \notin cleaned \/ strat2 \notin cleaned THEN "absent"
       ELSE IF common_assets = {} THEN "no_common"
       ELSE IF ~(Cardinality(idx1) > 10 /\ Cardinality(idx2) > 10) THEN "short"
       ELSE IF ~(Cardinality(common_idx) > 10) THEN "short"
       ELSE IF ~abs_pearsonr_above(row_mean(df1, common_assets, common_idx),
                                   row_mean(df2, common_assets, common_idx),
                                   common_idx, max_correlation) THEN "kept"
       ELSE removal_choice(df1, df2)

\* the loops with a `break` that leaves both of them
RECURSIVE decorrelate_from_stop(_, _, _, _, _)
decorrelate_from_stop(bundle, i, j, cleaned, visited) ==
    LET n == Len(bundle.names)
    IN IF i > n THEN [cleaned |-> cleaned, log |-> visited]
       ELSE IF j > n THEN decorrelate_from_stop(bundle, i + 1, i + 2, cleaned, visited)
       ELSE LET strat1 == bundle.names[i]
                strat2 == bundle.names[j]
                outcome == pair_outcome(bundle, cleaned, strat1, strat2)
                entry == [strat1 |-> strat1, strat2 |-> strat2, outcome |-> outcome]
            IN IF outcome = "remove_first"
               THEN [cleaned |-> cleaned \ {strat1}, log |-> Append(visited, entry)]
               ELSE IF outcome = "remove_second"
               THEN decorrelate_from_stop(bundle, i, j + 1, cleaned \ {strat2},
                                          Append(visited, entry))
               ELSE decorrelate_from_stop(bundle, i, j + 1, cleaned, Append(visited, entry))

\* the two loops from the pair (i, j) on: `break` after strat1 is removed
RECURSIVE decorrelate_from(_, _, _, _, _)
decorrelate_from(bundle, i, j, cleaned, visited) ==
    LET n == Len(bundle.names)
    IN IF i > n THEN [cleaned |-> cleaned, log |-> visited]
       ELSE IF j > n THEN decorrelate_from(bundle, i + 1, i + 2, cleaned, visited)
       ELSE LET strat1 == bundle.names[i]
                strat2 == bundle.names[j]
                outcome == pair_outcome(bundle, cleaned, strat1, strat2)
                entry == [strat1 |-> strat1, strat2 |-> strat2, outcome |-> outcome]
            IN IF outcome = "remove_first"
               THEN decorrelate_from(bundle, i + 1, i + 2, cleaned \ {strat1},
                                     Append(visited, entry))
               ELSE IF outcome = "remove_second"
               THEN decorrelate_from(bundle, i, j + 1, cleaned \ {strat2},
                                     Append(visited, entry))
               ELSE decorrelate_from(bundle, i, j + 1, cleaned, Append(visited, entry))

decorrelate_signals(bundle) ==
    decorrelate_from(bundle, 1, 2, {bundle.names[k] : k \in DOMAIN bundle.names}, <<>>)

-----------------------------------------------------------------------------
(* Bundles for the manager on its own.  A panel is drawn by its shape: the *)
(* columns it carries and which of them it scores, its dates and the wave  *)
(* and amplitude of its signal.                                            *)

MaxStrats == 3
MaxRows == 11
StrategyNames == <<"mean_reversion", "momentum", "stat_arb", "fx_vol", "extra">>

\* +1 or -1: wave 1 alternates daily, wave 2 every second day
Wave(w, d) == IF (d \div w) % 2 = 0 THEN 1 ELSE 0 - 1

Layouts ==
    [both |-> [columns |-> {"SPY", "QQQ"}, scored |-> {"SPY", "QQQ"}, blank |-> 0],
     first |-> [columns |-> {"SPY", "QQQ"}, scored |-> {"SPY"}, blank |-> 0],
     second |-> [columns |-> {"SPY", "QQQ"}, scored |-> {"QQQ"}, blank |-> 0],
     unscored |-> [columns |-> {"SPY", "QQQ"}, scored |-> {"SPY"}, blank |-> NaN],
     other |-> [columns |-> {"GLD"}, scored |-> {"GLD"}, blank |-> 0]]

Shapes ==
    {sh \in [layout : DOMAIN Layouts, start : 1..2, rows : 10..MaxRows,
             wave : 1..2, amp : {10, 30}] :
        IF sh.layout = "both"
        THEN /\ sh.start = 2 => (sh.rows = MaxRows /\ sh.amp = 30)
             /\ sh.wave = 2 => (sh.start = 1 /\ sh.rows = MaxRows /\ sh.amp = 10)
        ELSE /\ sh.start = 1
             /\ sh.rows = MaxRows
             /\ sh.wave = 1
             /\ sh.amp = (IF sh.layout = "second" THEN 30 ELSE 10)}

PanelOf(sh) ==
    LET lay == Layouts[sh.layout]
        index == sh.start..(sh.start + sh.rows - 1)
    IN [index |-> index,
        columns |-> lay.columns,
        val |-> [c \in index \X lay.columns |->
                    IF c[2] \in lay.scored THEN sh.amp * Wave(sh.wave, c[1])
                    ELSE lay.blank]]

\* the bundle of the first n strategy names, name k with the panel of shape f[k]
BundleOf(n, f) ==
    [names |-> SubSeq(StrategyNames, 1, n),
     panel |-> [name \in {StrategyNames[k] : k \in 1..n} |->
                   PanelOf(f[CHOOSE k \in 1..n : StrategyNames[k] = name])]]

IdleGen ==
    /\ prices = None
    /\ generator = "none"
    /\ params = NoParams
    /\ signals = NoSignals

InitManager ==
    /\ pc = "bundle"
    /\ IdleGen
    /\ \E n \in 1..MaxStrats : \E f \in [1..n -> Shapes] : signals_dict = BundleOf(n, f)
    /\ cleaned_signals = {}
    /\ log = <<>>
    /\ combined = None
    /\ raised = "none"
    /\ final_signal = None
    /\ sectors = None
    /\ sector_exposure = None
    /\ weight = None
    /\ IdleLoad

Decorrelate ==
    /\ pc = "bundle"
    /\ pc' = "cleaned"
    /\ LET r == decorrelate_signals(signals_dict)
       IN /\ cleaned_signals' = r.cleaned
          /\ log' = r.log
    /\ UNCHANGED <<loadvars, genvars, signals_dict, combined, raised, riskvars, weight>>

NextManager == Decorrelate

SpecManager == InitManager /\ [][NextManager]_vars

-----------------------------------------------------------------------------
(* Claims about decorrelate_signals, under SpecManager *)

Panel(name) == signals_dict.panel[name]
Evaluated(e) == e.outcome \in {"kept", "remove_first", "remove_second"}
Removing(e) == e.outcome \in {"remove_first", "remove_second"}

\* the pair's absolute correlation, on its shared assets and dates, is
\* above max_correlation
HighCorrelation(df1, df2) ==
    LET common_assets == strategy_assets(df1) \cap strategy_assets(df2)
        common_idx == dropna_rows(df1, common_assets) \cap dropna_rows(df2, common_assets)
    IN /\ common_assets # {}
       /\ abs_pearsonr_above(row_mean(df1, common_assets, common_idx),
                             row_mean(df2, common_assets, common_idx),
                             common_idx, max_correlation)

mean_abs_equal(df1, df2) ==
    /\ ~HasNaN(df1)
    /\ ~HasNaN(df2)
    /\ AbsSum(df1) * Cardinality(Cells(df2)) = AbsSum(df2) * Cardinality(Cells(df1))

\* C8: when two present strategies are correlated above max_correlation,
\* the one removed is the one with the strictly smaller mean absolute
\* signal, and when the two means are equal neither is removed.
C8_TieKeepsBoth ==
    pc = "cleaned" =>
        \A k \in DOMAIN log :
            LET e == log[k]
                df1 == Panel(e.strat1)
                df2 == Panel(e.strat2)
            IN (Evaluated(e) /\ HighCorrelation(df1, df2)) =>
                   /\ mean_abs_less(df1, df2) => e.outcome = "remove_first"
                   /\ mean_abs_less(df2, df1) => e.outcome = "remove_second"
                   /\ mean_abs_equal(df1, df2) => e.outcome = "kept"

\* C8 as amended: of a pair correlated above max_correlation the first is
\* removed when its mean absolute signal is strictly smaller than the
\* second's, and otherwise, also when the two means are equal, the second.
C8_TieRemovesSecond ==
    pc = "cleaned" =>
        \A k \in DOMAIN log :
            LET e == log[k]
                df1 == Panel(e.strat1)
                df2 == Panel(e.strat2)
            IN (Evaluated(e) /\ HighCorrelation(df1, df2)) =>
                   /\ mean_abs_less(df1, df2) => e.outcome = "remove_first"
                   /\ ~mean_abs_less(df1, df2) => e.outcome = "remove_second"

\* a correlated pair with equal means was visited and its second strategy
\* removed, and a pair whose first strategy was the weaker lost the first
C8_Witness ==
    /\ pc = "cleaned"
    /\ \E k \in DOMAIN log :
           /\ log[k].outcome = "remove_second"
           /\ mean_abs_equal(Panel(log[k].strat1), Panel(log[k].strat2))
           /\ log[k].strat2 \notin cleaned_signals
    /\ \E k \in DOMAIN log :
           /\ log[k].outcome = "remove_first"
           /\ log[k].strat1 \notin cleaned_signals

\* the assets a strategy actually scores: a signal that is neither missing
\* nor zero on at least one date
Scored(df) ==
    {a \in df.columns : \E d \in df.index :
        ~IsNaN(df.val[<<d, a>>]) /\ df.val[<<d, a>>] # 0}

\* C9: decorrelate_signals never removes either strategy of a pair whose
\* actually scored assets do not overlap.
C9_NoOverlapNoRemoval ==
    pc = "cleaned" =>
        \A k \in DOMAIN log :
            Scored(Panel(log[k].strat1)) \cap Scored(Panel(log[k].strat2)) = {}
                => ~Removing(log[k])

\* C10: a pair is evaluated whenever each side has at least 10 rows on the
\* shared assets and the two sides have at least 10 common dates, and is
\* skipped only when one of these counts is below 10.
C10_EvaluatedFromTenRows ==
    pc = "cleaned" =>
        \A k \in DOMAIN log :
            LET e == log[k]
                df1 == Panel(e.strat1)
                df2 == Panel(e.strat2)
                common_assets == strategy_assets(df1) \cap strategy_assets(df2)
                idx1 == dropna_rows(df1, common_assets)
                idx2 == dropna_rows(df2, common_assets)
            IN e.outcome \notin {"absent", "no_common"} =>
                   (Evaluated(e) <=>
                       /\ Cardinality(idx1) >= 10
                       /\ Cardinality(idx2) >= 10
                       /\ Cardinality(idx1 \cap idx2) >= 10)

-----------------------------------------------------------------------------
(* apply_risk_controls.  A Series is a record: index (a set of assets) and *)
(* val, a function of the asset.  Sectors are a list of named asset lists, *)
(* in the order of the dict.                                               *)

DefaultSectors ==
    <<[name |-> "equity", assets |-> <<"SPY", "QQQ", "IWM">>],
      [name |-> "crypto", assets |-> <<"BTC-USD", "ETH-USD">>],
      [name |-> "commodity", assets |-> <<"GLD">>],
      [name |-> "fx", assets |-> <<"EURUSD=X">>]>>

\* `asset in controlled_signal.index`: the index of a Series holds the
\* assets, the index of a DataFrame holds dates and never an asset
in_index(obj, asset) == obj.kind = "Series" /\ asset \in obj.index

\* [asset for asset in assets if asset in controlled_signal.index]
sector_assets(obj, assets) == SelectSeq(assets, LAMBDA a : in_index(obj, a))

RECURSIVE SumSeq(_)
SumSeq(q) == IF q = <<>> THEN 0 ELSE Head(q) + SumSeq(Tail(q))

\* the sector_exposure dict: sector name -> sum of abs(controlled_signal[asset])
exposures(controlled, sector_map) ==
    LET measured == {k \in DOMAIN sector_map : sector_assets(controlled, sector_map[k].assets) # <<>>}
    IN [name \in {sector_map[k].name : k \in measured} |->
           LET k == CHOOSE k \in measured : sector_map[k].name = name
               assets == sector_assets(controlled, sector_map[k].assets)
           IN SumSeq([i \in DOMAIN assets |-> Abs(controlled.val[assets[i]])])]

scale_factor_inverse(exposure) == Quot(exposure * Scale, max_sector_exposure)
scale_factor(exposure) == Quot(max_sector_exposure * Scale, exposure)

\* for asset in sector_assets: controlled_signal[asset] *= scale_factor
RECURSIVE scale_assets(_, _, _)
scale_assets(val, assets, factor) ==
    IF assets = <<>> THEN val
    ELSE scale_assets([val EXCEPT ![Head(assets)] = Quot(@ * factor, Scale)],
                      Tail(assets), factor)

\* the loop over sector_exposure.items(), from sector k on
RECURSIVE scale_sectors(_, _, _, _)
scale_sectors(controlled, sector_map, exposure, k) ==
    IF k > Len(sector_map) THEN controlled
    ELSE LET name == sector_map[k].name
             over == name \in DOMAIN exposure /\ exposure[name] > max_sector_exposure
             scaled == [controlled EXCEPT !.val =
                           scale_assets(@, sector_assets(controlled, sector_map[k].assets),
                                        scale_factor(exposure[name]))]
         IN scale_sectors(IF over THEN scaled ELSE controlled, sector_map, exposure, k + 1)

\* np.clip(combined_signal, -max_position_size, max_position_size)
clip_positions(obj) ==
    [obj EXCEPT !.val = [c \in DOMAIN obj.val |->
                            clip(obj.val[c], 0 - max_position_size, max_position_size)]]

apply_risk_controls(combined_signal, sector_map) ==
    LET controlled_signal == clip_positions(combined_signal)
        exposure == exposures(controlled_signal, sector_map)
    IN [controlled_signal |-> scale_sectors(controlled_signal, sector_map, exposure, 1),
        sector_exposure |-> exposure]

\* sectors that share assets
OverlappingSectors ==
    <<[name |-> "risk_on", assets |-> <<"SPY", "QQQ", "BTC-USD", "ETH-USD">>],
      [name |-> "equity", assets |-> <<"SPY", "QQQ", "IWM">>]>>

SectorMaps == {DefaultSectors, OverlappingSectors}

Universe == <<"BTC-USD", "ETH-USD", "EURUSD=X", "GLD", "IWM", "QQQ", "SPY">>
UniverseSet == {Universe[k] : k \in DOMAIN Universe}

\* combined signals: beyond the position limit, within it, and zero
SeriesValues == {0 - Scale, 0, 10, Scale}
SeriesIndexes == {UniverseSet, UniverseSet \ {"IWM", "GLD"}}

InitRisk ==
    /\ pc = "combined"
    /\ IdleGen
    /\ signals_dict = None
    /\ cleaned_signals = {}
    /\ log = <<>>
    /\ \E index \in SeriesIndexes : \E val \in [index -> SeriesValues] :
           combined = [kind |-> "Series", index |-> index, val |-> val]
    /\ raised = "none"
    /\ final_signal = None
    /\ sectors = None
    /\ sector_exposure = None
    /\ weight = None
    /\ IdleLoad

\* apply_risk_controls(combined_signal, sectors)
ApplyRiskControls ==
    \E given \in SectorMaps :
        /\ pc = "combined"
        /\ pc' = "controlled"
        /\ sectors' = given
        /\ LET r == apply_risk_controls(combined, given)
           IN /\ final_signal' = r.controlled_signal
              /\ sector_exposure' = r.sector_exposure
        /\ UNCHANGED <<loadvars, genvars, mgrvars, weight>>

NextRisk == ApplyRiskControls

SpecRisk == InitRisk /\ [][NextRisk]_vars

-----------------------------------------------------------------------------
(* Claims about apply_risk_controls on a Series, under SpecRisk *)

SectorSum(obj, assets) ==
    LET present == sector_assets(obj, assets)
    IN SumSeq([i \in DOMAIN present |-> Abs(obj.val[present[i]])])

OverLimit ==
    {k \in DOMAIN sectors :
        SectorSum(clip_positions(combined), sectors[k].assets) > max_sector_exposure}

Members(sector) == {sector.assets[i] : i \in DOMAIN sector.assets}

\* C3: apply_risk_controls never increases the absolute value of an entry
\* and never flips its sign; in its result the absolute values of every
\* sector sum to at most max_sector_exposure; an asset of no over-limit
\* sector keeps its position-clipped value.
C3_RiskControls ==
    pc = "controlled" =>
        /\ \A a \in combined.index :
               /\ Abs(final_signal.val[a]) <= Abs(combined.val[a])
               /\ final_signal.val[a] * combined.val[a] >= 0
        /\ \A k \in DOMAIN sectors :
               SectorSum(final_signal, sectors[k].assets) <= max_sector_exposure
        /\ \A a \in combined.index :
               (\A k \in OverLimit : a \notin Members(sectors[k])) =>
                   final_signal.val[a] =
                       clip(combined.val[a], 0 - max_position_size, max_position_size)

\* a sector was over the limit and scaled down, an asset of two over-limit
\* sectors was scaled twice, and an asset outside them kept a nonzero
\* clipped value
C3_Witness ==
    /\ pc = "controlled"
    /\ OverLimit # {}
    /\ \E a \in combined.index :
           /\ Cardinality({k \in OverLimit : a \in Members(sectors[k])}) = 2
           /\ 0 < Abs(final_signal.val[a])
           /\ Abs(final_signal.val[a]) < max_position_size
    /\ \E a \in combined.index :
           /\ \A k \in OverLimit : a \notin Members(sectors[k])
           /\ Abs(final_signal.val[a]) = max_position_size

-----------------------------------------------------------------------------
(* combine_signals_optimally.  A DataFrame is a record: index (dates),     *)
(* columns (a set), order (the columns in their order) and val.            *)

\* DataFrame.std(): per column, over the non-NaN dates, ddof = 1
column_std(df, a) ==
    LET V == {d \in df.index : ~IsNaN(df.val[<<d, a>>])}
        n == Cardinality(V)
        x == [d \in V |-> df.val[<<d, a>>]]
        sq == [d \in V |-> x[d] * x[d]]
        sm == SumOver(x, V)
    IN IF n < 2 THEN NaN
       ELSE Isqrt(Quot(n * SumOver(sq, V) - sm * sm, n * (n - 1)))

\* signal.std().mean(): the mean of the column deviations that are not NaN
strategy_vol(df) ==
    LET have == {a \in df.columns : ~IsNaN(column_std(df, a))}
    IN IF have = {} THEN NaN
       ELSE Quot(SumOver([a \in have |-> column_std(df, a)], have), Cardinality(have))

inv_vol(df) == Quot(Scale * Scale, strategy_vol(df))

\* the names given a weight: `if vol > 0`, false for NaN
weighted_names(bundle, names) ==
    SelectSeq(names, LAMBDA name :
        LET vol == strategy_vol(bundle.panel[name]) IN ~IsNaN(vol) /\ vol > 0)

\* weights[name] /= total_inv_vol
vol_weights(bundle, names) ==
    LET weighted == weighted_names(bundle, names)
        total_inv_vol == SumSeq([k \in DOMAIN weighted |-> inv_vol(bundle.panel[weighted[k]])])
    IN [k \in DOMAIN weighted |->
           Quot(inv_vol(bundle.panel[weighted[k]]) * Scale, total_inv_vol)]

\* the columns of a set in sorted order
Sorted(S) == SelectSeq(Universe, LAMBDA a : a \in S)

\* sum(w[k] * df[k] / den): frames are aligned on the union of their dates
\* and columns, and a cell that a frame lacks, or holds as NaN, is NaN
weighted_sum(bundle, names, w, den) ==
    LET df(k) == bundle.panel[names[k]]
        index == UNION {df(k).index : k \in DOMAIN names}
        columns == UNION {df(k).columns : k \in DOMAIN names}
        same == \A k \in DOMAIN names : df(k).order = df(1).order
    IN [kind |-> "DataFrame",
        index |-> index,
        columns |-> columns,
        order |-> IF same THEN df(1).order ELSE Sorted(columns),
        val |-> [c \in index \X columns |->
                    IF \A k \in DOMAIN names : c \in Cells(df(k)) /\ ~IsNaN(df(k).val[c])
                    THEN Quot(SumSeq([k \in DOMAIN names |-> Quot(w[k] * df(k).val[c], Scale)])
                                  * Scale, den)
                    ELSE NaN]]

\* DataFrame.fillna(0)
fillna_frame(df) == [df EXCEPT !.val = [c \in DOMAIN df.val |-> IF IsNaN(df.val[c]) THEN 0 ELSE df.val[c]]]

EmptySeries == [kind |-> "Series", index |-> {}, val |-> <<>>]

\* the result, or the exception raised: sum() of no frame is the int 0,
\* which has no fillna
combine_signals_optimally(bundle, names, combination_method) ==
    IF names = <<>> THEN [raised |-> "none", value |-> EmptySeries]
    ELSE IF combination_method = "volatility_weighted"
    THEN LET weighted == weighted_names(bundle, names)
         IN IF weighted = <<>> THEN [raised |-> "AttributeError", value |-> None]
            ELSE [raised |-> "none",
                  value |-> fillna_frame(weighted_sum(bundle, weighted,
                                                      vol_weights(bundle, names), Scale))]
    ELSE [raised |-> "none",
          value |-> fillna_frame(weighted_sum(bundle, names,
                                              [k \in DOMAIN names |-> Scale],
                                              Len(names) * Scale))]

-----------------------------------------------------------------------------
(* The pipeline of generate_hybrid_signals from the decorrelation on:      *)
(* the four strategies over their universes.                               *)

PipelineNames == <<"mean_reversion", "momentum", "stat_arb", "fx_vol">>

MEAN_REV_UNIVERSE == <<"IWM", "GLD">>
MOMENTUM_UNIVERSE == <<"SPY", "QQQ", "BTC-USD", "ETH-USD">>
FX_UNIVERSE == <<"EURUSD=X">>
STAT_ARB_PAIRS == <<<<"BTC-USD", "ETH-USD">>, <<"SPY", "QQQ">>>>

\* the columns of each strategy's panel; stat_arb is given all prices
PipelineOrder ==
    [mean_reversion |-> MEAN_REV_UNIVERSE,
     momentum |-> MOMENTUM_UNIVERSE,
     stat_arb |-> Universe,
     fx_vol |-> FX_UNIVERSE]

\* signal amplitudes: 0 is a strategy that never scores
PipelineAmps == {0, 30, Scale}

\* a strategy's signals: an amplitude and a wave; for stat_arb also the
\* number of pairs that pass its correlation gate
PipelineShape(sh) ==
    /\ sh.amp = 0 => (sh.wave = 1 /\ sh.pairs = 1)
    /\ sh.pairs \in 1..Len(STAT_ARB_PAIRS)

\* a generator's panel: the first date is 0 (filled after the shift), a
\* pair's legs carry opposite signals, unpaired columns of stat_arb are 0
PipelinePanel(name, sh) ==
    LET order == PipelineOrder[name]
        columns == {order[k] : k \in DOMAIN order}
        index == 1..MaxRows
        x(d) == IF d = 1 THEN 0 ELSE sh.amp * Wave(sh.wave, d)
        leg(a) == IF \E k \in 1..sh.pairs : STAT_ARB_PAIRS[k][1] = a THEN 1
                  ELSE IF \E k \in 1..sh.pairs : STAT_ARB_PAIRS[k][2] = a THEN 0 - 1
                  ELSE 0
    IN [index |-> index,
        columns |-> columns,
        order |-> order,
        val |-> [c \in index \X columns |->
                    IF name = "stat_arb" THEN leg(c[2]) * x(c[1]) ELSE x(c[1])]]

IsPipelineBundle ==
    \E f \in [{PipelineNames[k] : k \in DOMAIN PipelineNames} ->
                 [amp : PipelineAmps, wave : 1..2, pairs : 1..2]] :
        /\ \A name \in DOMAIN f : PipelineShape(f[name])
        /\ \A name \in DOMAIN f : name # "stat_arb" => f[name].pairs = 1
        /\ signals_dict = [names |-> PipelineNames,
                           panel |-> [name \in DOMAIN f |-> PipelinePanel(name, f[name])]]

CleanedNames == SelectSeq(signals_dict.names, LAMBDA name : name \in cleaned_signals)

\* combine_signals_optimally(cleaned_signals) with the default method
CombineEqualWeight ==
    /\ pc = "cleaned"
    /\ LET r == combine_signals_optimally(signals_dict, CleanedNames, "equal_weight")
       IN /\ raised' = r.raised
          /\ combined' = r.value
          /\ pc' = IF r.raised = "none" THEN "combined" ELSE "raised"
    /\ UNCHANGED <<loadvars, genvars, signals_dict, cleaned_signals, log, riskvars, weight>>

\* combine_signals_optimally(cleaned_signals, combination_method="volatility_weighted")
CombineVolatilityWeighted ==
    /\ pc = "cleaned"
    /\ LET r == combine_signals_optimally(signals_dict, CleanedNames, "volatility_weighted")
       IN /\ raised' = r.raised
          /\ combined' = r.value
          /\ pc' = IF r.raised = "none" THEN "combined" ELSE "raised"
    /\ UNCHANGED <<loadvars, genvars, signals_dict, cleaned_signals, log, riskvars, weight>>

\* combine_signals_optimally on its own, on the four strategies
InitCombine ==
    /\ pc = "cleaned"
    /\ IdleGen
    /\ IsPipelineBundle
    /\ cleaned_signals = {PipelineNames[k] : k \in DOMAIN PipelineNames}
    /\ log = <<>>
    /\ combined = None
    /\ raised = "none"
    /\ final_signal = None
    /\ sectors = None
    /\ sector_exposure = None
    /\ weight = None
    /\ IdleLoad

NextCombine == CombineEqualWeight \/ CombineVolatilityWeighted

SpecCombine == InitCombine /\ [][NextCombine]_vars

-----------------------------------------------------------------------------
(* Claims about combine_signals_optimally, under SpecCombine *)

\* the surviving strategies whose panel has the column
Containing(a) == {name \in cleaned_signals : a \in Panel(name).columns}

\* C7: combine_signals_optimally zero-fills only assets missing from all
\* surviving strategies; the combined value of an asset is the blend of
\* the values of the strategies that contain it, so where one of them is
\* positive and none negative the blend is positive (and likewise
\* negative), whatever the other strategies cover.
C7_BlendOfContaining ==
    pc = "combined" =>
        \A c \in Cells(combined) :
            LET v(name) == Panel(name).val[c]
                S == Containing(c[2])
            IN /\ ((\E name \in S : v(name) > 0) /\ (\A name \in S : v(name) >= 0))
                      => combined.val[c] > 0
               /\ ((\E name \in S : v(name) < 0) /\ (\A name \in S : v(name) <= 0))
                      => combined.val[c] < 0

-----------------------------------------------------------------------------
(* The weight constructor of generate_hybrid_signals *)

TopN == 3

\* final_signal.iloc[-1]: the row of the last date, a Series over the columns
today_signal(signal) ==
    LET last == CHOOSE d \in signal.index : \A e \in signal.index : e <= d
    IN [kind |-> "Series",
        index |-> signal.columns,
        order |-> signal.order,
        val |-> [a \in signal.columns |-> signal.val[<<last, a>>]]]

\* the position in order of the largest sgn * value; of equal values the first
first_best(order, val, sgn) ==
    CHOOSE i \in DOMAIN order :
        /\ \A j \in DOMAIN order : sgn * val[order[j]] <= sgn * val[order[i]]
        /\ \A j \in 1..(i - 1) : sgn * val[order[j]] < sgn * val[order[i]]

RECURSIVE take_best(_, _, _, _)
take_best(order, val, n, sgn) ==
    IF n = 0 \/ order = <<>> THEN {}
    ELSE LET i == first_best(order, val, sgn)
         IN {order[i]} \cup take_best(SubSeq(order, 1, i - 1) \o SubSeq(order, i + 1, Len(order)),
                                      val, n - 1, sgn)

\* Series.nlargest(n).index and Series.nsmallest(n).index, keep='first'
nlargest(series, n) == take_best(series.order, series.val, n, 1)
nsmallest(series, n) == take_best(series.order, series.val, n, 0 - 1)

\* weight = 0.0; weight[top3] = 1.0; weight[bot3] = -1.0
raw_weight(universe, top3, bot3) ==
    [a \in universe |-> IF a \in bot3 THEN 0 - 1 ELSE IF a \in top3 THEN 1 ELSE 0]

abs_sum(raw) == SumOver([a \in DOMAIN raw |-> Abs(raw[a])], DOMAIN raw)

\* the divisor of the weights: weight.abs().sum() when it is positive
divisor_one(raw) == 1
divisor(raw) == IF abs_sum(raw) > 0 THEN abs_sum(raw) ELSE 1

\* the weights as fractions num[a] / den
portfolio_weights(signal, universe) ==
    LET today == today_signal(signal)
        raw == raw_weight(universe, nlargest(today, TopN), nsmallest(today, TopN))
    IN [num |-> raw, den |-> divisor(raw)]

Weights ==
    /\ pc = "controlled"
    /\ pc' = "weights"
    /\ weight' = portfolio_weights(final_signal, UniverseSet)
    /\ UNCHANGED <<loadvars, genvars, mgrvars, riskvars>>

\* the weight constructor on its own: a final signal of one date, over all
\* seven assets or over the momentum universe
WeightValues == {0 - max_position_size, 0, 5, max_position_size}
WeightOrders == {Universe, MOMENTUM_UNIVERSE}

InitWeights ==
    /\ pc = "controlled"
    /\ IdleGen
    /\ signals_dict = None
    /\ cleaned_signals = {}
    /\ log = <<>>
    /\ combined = None
    /\ raised = "none"
    /\ sectors = None
    /\ sector_exposure = None
    /\ weight = None
    /\ IdleLoad
    /\ \E order \in WeightOrders :
           LET columns == {order[k] : k \in DOMAIN order}
           IN \E row \in [columns -> WeightValues] :
                  final_signal = [kind |-> "DataFrame",
                                  index |-> {1},
                                  columns |-> columns,
                                  order |-> order,
                                  val |-> [c \in {1} \X columns |-> row[c[2]]]]

NextWeights == Weights

SpecWeights == InitWeights /\ [][NextWeights]_vars

\* the pipeline: decorrelate, combine, risk controls, weights
InitPipeline ==
    /\ pc = "bundle"
    /\ IdleGen
    /\ IsPipelineBundle
    /\ cleaned_signals = {}
    /\ log = <<>>
    /\ combined = None
    /\ raised = "none"
    /\ sectors = None
    /\ final_signal = None
    /\ sector_exposure = None
    /\ weight = None
    /\ IdleLoad

\* signal_manager.apply_risk_controls(combined_signal_raw): sectors=None
ApplyDefaultRiskControls ==
    /\ pc = "combined"
    /\ pc' = "controlled"
    /\ sectors' = DefaultSectors
    /\ LET r == apply_risk_controls(combined, DefaultSectors)
       IN /\ final_signal' = r.controlled_signal
          /\ sector_exposure' = r.sector_exposure
    /\ UNCHANGED <<loadvars, genvars, mgrvars, weight>>

NextPipeline ==
    \/ Decorrelate
    \/ CombineVolatilityWeighted
    \/ ApplyDefaultRiskControls
    \/ Weights

SpecPipeline == InitPipeline /\ [][NextPipeline]_vars

-----------------------------------------------------------------------------
(* Claims about the pipeline's risk controls, under SpecPipeline *)

\* the sum of absolute latest-date values over the sector's assets that
\* the final signal has
LatestSectorSum(sector) ==
    LET today == today_signal(final_signal)
        present == Members(sector) \cap today.index
    IN SumOver([a \in present |-> Abs(today.val[a])], present)

-----------------------------------------------------------------------------
(* Claims about the weight constructor, under SpecWeights *)

top3 == nlargest(today_signal(final_signal), TopN)
bot3 == nsmallest(today_signal(final_signal), TopN)

\* sums of the weights' numerators
SumNum == SumOver(weight.num, DOMAIN weight.num)
SumAbsNum == abs_sum(weight.num)

\* C5: whenever the top-3 and bottom-3 sets are disjoint and of equal
\* size, the weights are +1/6 on each long asset, -1/6 on each short asset
\* and 0 elsewhere: they sum to 0 and their absolute values sum to 1.
C5_MarketNeutral ==
    (/\ pc = "weights"
     /\ top3 \cap bot3 = {}
     /\ Cardinality(top3) = Cardinality(bot3)) =>
        /\ weight.den = 6
        /\ \A a \in DOMAIN weight.num :
               weight.num[a] = (IF a \in top3 THEN 1 ELSE IF a \in bot3 THEN 0 - 1 ELSE 0)
        /\ SumNum = 0
        /\ SumAbsNum = weight.den

\* disjoint long and short sets of three, chosen among tied values
C5_Witness ==
    /\ pc = "weights"
    /\ top3 \cap bot3 = {}
    /\ Cardinality(top3) = TopN
    /\ Cardinality(bot3) = TopN
    /\ \E a \in top3 : \E b \in final_signal.columns \ top3 :
           final_signal.val[<<1, a>>] = final_signal.val[<<1, b>>]

\* C6: the absolute weights sum to 0 or to 1, and to 0 exactly when the
\* latest-date signal is zero for every asset: then every weight stays 0.
C6_ZeroSignalZeroWeights ==
    pc = "weights" =>
        /\ SumAbsNum = 0 \/ SumAbsNum = weight.den
        /\ SumAbsNum = 0 <=>
               \A a \in final_signal.columns : today_signal(final_signal).val[a] = 0

-----------------------------------------------------------------------------
(* Further claims about decorrelate_signals, under SpecManager *)

\* the bundle with its insertion order reversed
Reversed(bundle) ==
    [bundle EXCEPT !.names = [k \in DOMAIN bundle.names |->
                                 bundle.names[Len(bundle.names) + 1 - k]]]

\* a bundle of two strategies that were compared, correlate above
\* max_correlation and differ in mean absolute signal
CorrelatedUnequalPair ==
    /\ pc = "cleaned"
    /\ Len(signals_dict.names) = 2
    /\ Len(log) = 1
    /\ Evaluated(log[1])
    /\ HighCorrelation(Panel(log[1].strat1), Panel(log[1].strat2))
    /\ \/ mean_abs_less(Panel(log[1].strat1), Panel(log[1].strat2))
       \/ mean_abs_less(Panel(log[1].strat2), Panel(log[1].strat1))

\* C11: of two strategies correlated above the threshold with different
\* mean absolute signals, decorrelate_signals removes the one with the
\* lower mean and keeps the other, and the survivor is the same when the
\* insertion order of the bundle is reversed.
C11_OrderIndependent ==
    CorrelatedUnequalPair =>
        LET strat1 == log[1].strat1
            strat2 == log[1].strat2
            stronger == IF mean_abs_less(Panel(strat1), Panel(strat2)) THEN strat2 ELSE strat1
        IN /\ cleaned_signals = {stronger}
           /\ decorrelate_signals(Reversed(signals_dict)).cleaned = {stronger}

\* the first strategy of the bundle has the lower mean and was removed
C11_Witness ==
    /\ CorrelatedUnequalPair
    /\ mean_abs_less(Panel(log[1].strat1), Panel(log[1].strat2))
    /\ cleaned_signals = {log[1].strat2}
    /\ log[1].outcome = "remove_first"

\* the strategies removed by the log entries before entry k
RemovedBefore(k) ==
    {log[h].strat1 : h \in {h \in 1..(k - 1) : log[h].outcome = "remove_first"}}
        \cup {log[h].strat2 : h \in {h \in 1..(k - 1) : log[h].outcome = "remove_second"}}

BundleNames == {signals_dict.names[k] : k \in DOMAIN signals_dict.names}

\* its mean absolute signal is strictly greater than every other's
StrictlyStrongest(name) ==
    \A other \in BundleNames \ {name} : mean_abs_less(Panel(other), Panel(name))

\* C15: decorrelate_signals returns a non-empty subset of a non-empty
\* bundle; a strategy is removed only while the other strategy of the
\* compared pair is still present, and a strategy whose mean absolute
\* signal is strictly greater than every other's is never removed.
C15_NeverEmpty ==
    pc = "cleaned" =>
        /\ cleaned_signals # {}
        /\ cleaned_signals \subseteq BundleNames
        /\ \A k \in DOMAIN log :
               Removing(log[k]) =>
                   /\ log[k].strat1 \notin RemovedBefore(k)
                   /\ log[k].strat2 \notin RemovedBefore(k)
        /\ \A name \in BundleNames : StrictlyStrongest(name) => name \in cleaned_signals

\* two removals in a row left only the strictly strongest of three
C15_Witness ==
    /\ pc = "cleaned"
    /\ Len(signals_dict.names) = 3
    /\ Cardinality(cleaned_signals) = 1
    /\ \E name \in cleaned_signals : StrictlyStrongest(name)
    /\ \E k \in DOMAIN log : log[k].outcome = "remove_first"
    /\ \E k \in DOMAIN log : log[k].outcome = "remove_second"

\* the pair shares assets and has more than 10 rows each and in common
Comparable(df1, df2) ==
    LET common_assets == strategy_assets(df1) \cap strategy_assets(df2)
        idx1 == dropna_rows(df1, common_assets)
        idx2 == dropna_rows(df2, common_assets)
    IN /\ common_assets # {}
       /\ Cardinality(idx1) > 10
       /\ Cardinality(idx2) > 10
       /\ Cardinality(idx1 \cap idx2) > 10

\* C16: after decorrelate_signals no two surviving strategies that share
\* assets and have enough rows and common dates to be compared have an
\* absolute correlation of their per-date means above max_correlation.
C16_NoRedundantSurvivors ==
    pc = "cleaned" =>
        \A strat1 \in cleaned_signals : \A strat2 \in cleaned_signals \ {strat1} :
            Comparable(Panel(strat1), Panel(strat2)) =>
                ~HighCorrelation(Panel(strat1), Panel(strat2))

\* the inner loop was left early after a removal of the first strategy,
\* and two comparable strategies survived as an uncorrelated pair
C16_Witness ==
    /\ pc = "cleaned"
    /\ Len(signals_dict.names) = 3
    /\ \E k \in DOMAIN log : log[k].outcome = "remove_first"
    /\ \E strat1 \in cleaned_signals : \E strat2 \in cleaned_signals \ {strat1} :
           Comparable(Panel(strat1), Panel(strat2))

-----------------------------------------------------------------------------
(* Further claims about combine_signals_optimally, under SpecCombine *)

\* every strategy of the bundle has zero volatility
AllZeroVolatility ==
    \A name \in cleaned_signals : strategy_vol(Panel(name)) = 0

\* C12: combine_signals_optimally with volatility_weighted never raises on
\* degenerate statistics: strategies of zero volatility are left out of
\* the weighting and the call returns a combined result for every
\* non-empty bundle, also when every strategy has zero volatility.
C12_NeverRaises ==
    pc \in {"combined", "raised"} =>
        /\ raised = "none"
        /\ combined.kind = "DataFrame"
        /\ AllZeroVolatility => \A c \in Cells(combined) : combined.val[c] = 0

-----------------------------------------------------------------------------
(* The generator calls of generate_hybrid_signals.  A call binds its      *)
(* keyword arguments to the parameters of the function's def; a keyword   *)
(* the def does not name raises TypeError.                                *)

\* the parameters of each def
Signature ==
    [mean_reversion |-> {"prices", "lookback", "clip_range"},
     momentum |-> {"price_data", "lookback", "clip_range"},
     stat_arb |-> {"price_data", "lookback", "zscore_threshold", "clip_range"},
     fx_vol |-> {"price_data", "lookback", "volatility_period"}]

\* the keyword arguments of each call; the panel is passed by position
MeanReversionCall == [lookback |-> 15, clip_range |-> DefaultClip]
MomentumCall == [lookback |-> 21, clip_range |-> DefaultClip]
StatArbCall == [lookback |-> 20, zscore_threshold |-> 2, clip_range |-> DefaultClip]
FxCall == [lookback |-> 50, volatility_period |-> 14, clip_range |-> DefaultClip]

accepts(name, kwargs) == DOMAIN kwargs \subseteq Signature[name]

\* prices[UNIVERSE]
columns_of(price_data, universe) ==
    [c \in {universe[k] : k \in DOMAIN universe} |-> price_data[c]]

\* all_signals[name] = generator(panel, **kwargs), or the TypeError
call_generator(all_signals, name, kwargs, price_data) ==
    IF accepts(name, kwargs)
    THEN [raised |-> "none",
          all_signals |-> [names |-> Append(all_signals.names, name),
                           panel |-> [n \in DOMAIN all_signals.panel \cup {name} |->
                                         IF n = name THEN Generate(name, kwargs, price_data)
                                         ELSE all_signals.panel[n]]]]
    ELSE [raised |-> "TypeError", all_signals |-> all_signals]

\* a well-formed price panel: every asset of the universe, no NaN
IsUniversePanel ==
    \E k \in [1..3 -> 1..NPatterns], n \in 0..1 :
        \E tail \in SeqsOfLen(TailPrices, n) :
            prices = [c \in UniverseSet |->
                         LET p == CHOOSE p \in DOMAIN Universe : Universe[p] = c
                         IN PriceSeries(k[1 + (p % 3)], tail)]

InitCalls ==
    /\ pc = "mean_reversion"
    /\ IsUniversePanel
    /\ generator = "none"
    /\ params = NoParams
    /\ signals = NoSignals
    /\ signals_dict = [names |-> <<>>, panel |-> <<>>]
    /\ cleaned_signals = {}
    /\ log = <<>>
    /\ combined = None
    /\ raised = "none"
    /\ sectors = None
    /\ final_signal = None
    /\ sector_exposure = None
    /\ weight = None
    /\ IdleLoad

CallMeanReversion ==
    /\ pc = "mean_reversion"
    /\ LET r == call_generator(signals_dict, "mean_reversion", MeanReversionCall,
                               columns_of(prices, MEAN_REV_UNIVERSE))
       IN /\ raised' = r.raised
          /\ signals_dict' = r.all_signals
          /\ pc' = IF r.raised = "none" THEN "momentum" ELSE "raised"
    /\ UNCHANGED <<loadvars, genvars, cleaned_signals, log, combined, riskvars, weight>>

CallMomentum ==
    /\ pc = "momentum"
    /\ LET r == call_generator(signals_dict, "momentum", MomentumCall,
                               columns_of(prices, MOMENTUM_UNIVERSE))
       IN /\ raised' = r.raised
          /\ signals_dict' = r.all_signals
          /\ pc' = IF r.raised = "none" THEN "stat_arb" ELSE "raised"
    /\ UNCHANGED <<loadvars, genvars, cleaned_signals, log, combined, riskvars, weight>>

CallStatArb ==
    /\ pc = "stat_arb"
    /\ LET r == call_generator(signals_dict, "stat_arb", StatArbCall, prices)
       IN /\ raised' = r.raised
          /\ signals_dict' = r.all_signals
          /\ pc' = IF r.raised = "none" THEN "fx_vol" ELSE "raised"
    /\ UNCHANGED <<loadvars, genvars, cleaned_signals, log, combined, riskvars, weight>>

CallFx ==
    /\ pc = "fx_vol"
    /\ LET r == call_generator(signals_dict, "fx_vol", FxCall,
                               columns_of(prices, FX_UNIVERSE))
       IN /\ raised' = r.raised
          /\ signals_dict' = r.all_signals
          /\ pc' = IF r.raised = "none" THEN "decorrelate" ELSE "raised"
    /\ UNCHANGED <<loadvars, genvars, cleaned_signals, log, combined, riskvars, weight>>

NextCalls == CallMeanReversion \/ CallMomentum \/ CallStatArb \/ CallFx

SpecCalls == InitCalls /\ [][NextCalls]_vars

\* C13: every generator, called as the pipeline calls it, accepts its
\* parameters and returns a panel over the dates and assets it was given,
\* so no generator call raises and the pipeline reaches decorrelation.
C13_GeneratorsAccept ==
    /\ raised = "none"
    /\ pc # "raised"
    /\ \A name \in DOMAIN signals_dict.panel :
           \A c \in DOMAIN signals_dict.panel[name] :
               Len(signals_dict.panel[name][c]) = Len(prices[c])

-----------------------------------------------------------------------------
(* load_or_download_data.  What yf.download gives at an attempt is either *)
(* an exception or a frame: a set of rows, one per date, a date counted   *)
(* in days from today (0 is today) and a row possibly missing a price.    *)

Attempts == 3
LastAttempt == 2

Days == {0 - 2, 0 - 1, 0}
Rows == [date : Days, missing : BOOLEAN]

\* the frames: at most one row per date
Frames == {df \in SUBSET Rows : \A r \in df : \A q \in df : r.date = q.date => r = q}

Downloads == {[error |-> TRUE, df |-> {}]} \cup {[error |-> FALSE, df |-> df] : df \in Frames}

\* df["Close"].dropna()
dropna_prices(df) == {r \in df : ~r.missing}

\* close[close.index.date < today]
completed_days_and_today(rows) == {r \in rows : r.date <= 0}
completed_days(rows) == {r \in rows : r.date < 0}

\* the validated data of an attempt; empty when the attempt fails
validated(got) ==
    IF got.error \/ got.df = {} THEN {}
    ELSE completed_days(dropna_prices(got.df))

InitLoad ==
    /\ pc = "download"
    /\ IdleGen
    /\ IdleManager

\* one pass of the loop body: the download, the validation, and the
\* return or the except clause
Attempt ==
    \E got \in Downloads :
        /\ pc = "download"
        /\ downloads' = Append(downloads, got)
        /\ IF validated(got) # {}
           THEN /\ pc' = "returned"
                /\ close' = validated(got)
                /\ raised' = raised
           ELSE IF attempt = LastAttempt
           THEN /\ pc' = "raised"
                /\ raised' = "RuntimeError"
                /\ close' = close
           ELSE /\ pc' = "sleep"
                /\ raised' = raised
                /\ close' = close
        /\ UNCHANGED <<genvars, signals_dict, cleaned_signals, log, combined,
                       riskvars, weight, attempt>>

\* time.sleep(5) and the next value of range(3)
Retry ==
    /\ pc = "sleep"
    /\ attempt' = attempt + 1
    /\ pc' = IF attempt + 1 < Attempts THEN "download" ELSE "exhausted"
    /\ UNCHANGED <<genvars, mgrvars, riskvars, weight, downloads, close>>

NextLoad == Attempt \/ Retry

SpecLoad == InitLoad /\ [][NextLoad]_vars

\* the loop keeps running: a download returns or fails, a sleep ends
SpecLoadFair == SpecLoad /\ WF_vars(Attempt) /\ WF_vars(Retry)

-----------------------------------------------------------------------------
(* Claims about load_or_download_data, under SpecLoadFair *)

\* the attempt's data is non-empty and still non-empty after keeping only
\* its complete rows dated strictly before today
Succeeds(got) ==
    /\ ~got.error
    /\ \E r \in got.df : ~r.missing /\ r.date < 0

AllFailed == \A h \in DOMAIN downloads : ~Succeeds(downloads[h])
Terminated == pc \in {"returned", "raised"}

\* what holds of every state of a run of the loader
RetrySafety ==
    /\ Len(downloads) <= 3
    /\ pc # "exhausted"
    /\ pc = "returned" =>
           LET k == Len(downloads)
           IN /\ Succeeds(downloads[k])
              /\ \A h \in 1..(k - 1) : ~Succeeds(downloads[h])
              /\ close # {}
              /\ close = {r \in downloads[k].df : ~r.missing /\ r.date < 0}
              /\ raised = "none"
    /\ pc = "raised" <=> (Len(downloads) = 3 /\ AllFailed)
    /\ pc = "raised" => raised = "RuntimeError"

\* another attempt starts only after attempt 1 or 2 has failed
RetryStep ==
    attempt' # attempt =>
        /\ attempt' = attempt + 1
        /\ attempt \in {0, 1}
        /\ Len(downloads) = attempt + 1
        /\ ~Succeeds(downloads[attempt + 1])

\* C14: load_or_download_data makes at most 3 attempts in order, returns
\* at the first attempt whose data is non-empty after keeping only rows
\* dated strictly before today, starts another attempt only after a
\* failed attempt 1 or 2, raises RuntimeError exactly when all 3 attempts
\* fail, and always terminates with the data or that error.
C14_RetryProtocol ==
    /\ []RetrySafety
    /\ [][RetryStep]_vars
    /\ <>Terminated

\* the third attempt succeeded after two failures, and today's row was
\* left out of the data returned
C14_Witness ==
    /\ pc = "returned"
    /\ Len(downloads) = 3
    /\ attempt = 2
    /\ \E r \in downloads[3].df : r.date = 0 /\ ~r.missing
    /\ \A r \in close : r.date < 0

=============================================================================
